---- MODULE Spec2Model ----
(***************************************************************************)
(* Student progress tracking and adaptive selection of the tutorial demo   *)
(* (complete_assignment_demo.py): the StudentProfile, the tracker update,  *)
(* the response evaluator, the two heuristic agents, the coordination      *)
(* policy and the two session drivers (interactive and --auto).            *)
(*                                                                         *)
(* Numbers.  The program computes with Python floats.  Here every real     *)
(* quantity is a fixed-point integer in units of 1/SCALE (one millionth),  *)
(* and a product with a decimal factor is one integer division rounding    *)
(* down.  All rewards the evaluator can produce (three decimals) and all   *)
(* thresholds are exact in this representation.                            *)
(***************************************************************************)
EXTENDS Integers, FiniteSets, Sequences, TLC

VARIABLES
    pc,                 \* position of the running program
    driver,             \* "interactive" | "auto" | "unit"
    mode,               \* CompleteTutorialOrchestrator.mode
    student_profile,    \* the StudentProfile object (shared by reference)
    demo_students,      \* CompleteRLAssignmentDemo.progress_manager.students (ids)
    orch_students,      \* orchestrator.progress_manager.students (ids)
    dqn_agent,          \* EnhancedDQNAgent fields
    ppo_agent,          \* EnhancedPPOAgent fields
    interaction_count,  \* orchestrator.interaction_count
    total_reward,       \* orchestrator.total_reward
    round_num,          \* rounds started by the session loop
    topic,              \* topic argument of the last tracker call
    difficulty,         \* difficulty argument of the last tracker call
    user_response,      \* response argument of a direct evaluator call
    reward,             \* last value returned by evaluate_response
    feedback,           \* last label returned by evaluate_response
    response_quality,   \* response_quality argument of the last tracker call
    prev_profile,       \* history: profile before the last operation
    answered,           \* history: responses scored by the evaluator
    presented,          \* history: questions presented
    update_calls,       \* history: effective update_student_performance calls
    quit_seen,          \* history: the student typed q / quit / exit
    empty_seen,         \* history: the student sent an empty line
    saved_interactions, \* history: save_interaction calls
    saved_summaries,    \* history: save_session_summary calls
    coordination,       \* description returned by a direct coordinate_agents call
    active_sessions,    \* web application: session id -> session data
    results_manager,    \* web application: records written per session id
    json_response,      \* web application: the last JSONResponse
    clock,              \* web application: the wall clock, in seconds
    episode_step,       \* HumanTutoringEnvironment.episode_step
    human_student,      \* HumanTutoringEnvironment.human_student (a HumanStudent)
    current_question,   \* HumanTutoringEnvironment.current_question
    shown,              \* history: text answer_question printed and text it checked
    returned            \* what the last environment call returned or raised

profileVars == <<student_profile, demo_students, orch_students>>
orchVars    == <<mode, dqn_agent, ppo_agent, interaction_count, total_reward>>
roundVars   == <<round_num, topic, difficulty, user_response, reward, feedback>>
histVars    == <<prev_profile, answered, presented, update_calls, quit_seen,
                 empty_seen, saved_interactions, saved_summaries>>
webVars     == <<coordination, active_sessions, results_manager, json_response,
                 clock>>
envVars     == <<episode_step, human_student, current_question, shown, returned>>
vars == <<pc, driver, profileVars, orchVars, roundVars, response_quality, histVars,
          webVars, envVars>>

----------------------------------------------------------------------------
(* Fixed-point arithmetic *)

SCALE == 10^6
HALF  == SCALE \div 2
TENTH == SCALE \div 10

\* x * (num/den), rounded down
Frac(x, num, den) == (x * num) \div den

Min(a, b) == IF a < b THEN a ELSE b
Max(a, b) == IF a > b THEN a ELSE b

RECURSIVE SumOver(_, _)
SumOver(f, S) ==
    IF S = {} THEN 0
    ELSE LET x == CHOOSE y \in S : TRUE IN f[x] + SumOver(f, S \ {x})

----------------------------------------------------------------------------
(* Data *)

Topics       == {"mathematics", "science", "programming", "language"}
Difficulties == {"easy", "medium", "hard"}
Modes        == {"hierarchical", "collaborative", "competitive"}

DemoStudentId == "DEMO001"

\* StudentProfile defaults and __post_init__
NewProfile(preferred) ==
    [ student_id               |-> DemoStudentId,
      preferred_topics         |-> preferred,
      overall_performance      |-> HALF,
      topic_performance        |-> [t \in Topics |-> HALF],
      difficulty_performance   |-> [d \in Difficulties |->
                                      CASE d = "easy"   -> 6 * TENTH
                                        [] d = "medium" -> 5 * TENTH
                                        [] d = "hard"   -> 4 * TENTH],
      total_questions_answered |-> 0,
      correct_responses        |-> 0,
      detailed_responses       |-> 0,
      session_count            |-> 0,
      strength_areas           |-> {},
      improvement_areas        |-> {},
      learning_velocity        |-> 0,
      engagement_score         |-> HALF ]

----------------------------------------------------------------------------
(* Student State Tracker *)

\* sum(topic_scores.values()) / len(topic_scores)
AvgPerformance(tp) == SumOver(tp, DOMAIN tp) \div Cardinality(DOMAIN tp)

StrengthOf(tp) == {t \in DOMAIN tp : tp[t] > AvgPerformance(tp) + TENTH}

ImprovementOf(tp) == {t \in DOMAIN tp : tp[t] < AvgPerformance(tp) - TENTH}

\* mutant: the areas accumulated instead of recomputed
AccumulateLearningAreas(p) ==
    [p EXCEPT !.strength_areas    = @ \cup StrengthOf(p.topic_performance),
              !.improvement_areas = @ \cup ImprovementOf(p.topic_performance)]

\* _update_learning_areas
UpdateLearningAreas(p) ==
    [p EXCEPT !.strength_areas    = StrengthOf(p.topic_performance),
              !.improvement_areas = ImprovementOf(p.topic_performance)]

\* mutant: the per-entry average smoothed like the overall one
EmaEntrySlow(old, q) == (9 * old + q) \div 10

\* exponential moving averages of update_student_performance
EmaOverall(old, q) == (9 * old + q) \div 10
EmaEntry(old, q)   == (8 * old + 2 * q) \div 10

\* mutant: the engagement update without its clamp
NewEngagementUnclamped(old, q) == old + (q - HALF) \div 10

\* engagement update with its clamp
NewEngagement(old, q) == Max(TENTH, Min(SCALE, old + (q - HALF) \div 10))

Bump(cond) == IF cond THEN 1 ELSE 0

\* mutant: a quality of exactly 0.6 counted as correct
IsCorrectInclusive(q) == q >= 6 * TENTH

\* mutant: a quality above 0.5 counted as detailed
IsDetailedLow(q) == q > HALF

\* if response_quality > 0.6 / if response_quality > 0.8
IsCorrect(q)  == q > 6 * TENTH
IsDetailed(q) == q > 8 * TENTH

\* mutant: the velocity recomputed from the fifth answer on
NewVelocityEarly(old, count, tp) ==
    IF count >= 5 THEN (AvgPerformance(tp) - HALF) * 2 ELSE old

\* learning velocity: recomputed only once more than 5 questions are answered
NewVelocity(old, count, tp) ==
    IF count > 5 THEN (AvgPerformance(tp) - HALF) * 2 ELSE old

\* body of update_student_performance for a registered student
ApplyUpdate(p, t, d, q) ==
    LET tp == [p.topic_performance EXCEPT ![t] = EmaEntry(@, q)]
        dp == [p.difficulty_performance EXCEPT ![d] = EmaEntry(@, q)]
        n  == p.total_questions_answered + 1
    IN UpdateLearningAreas(
         [p EXCEPT !.overall_performance      = EmaOverall(@, q),
                   !.topic_performance        = tp,
                   !.difficulty_performance   = dp,
                   !.total_questions_answered = n,
                   !.correct_responses        = @ + Bump(IsCorrect(q)),
                   !.detailed_responses       = @ + Bump(IsDetailed(q)),
                   !.engagement_score         = NewEngagement(@, q),
                   !.learning_velocity        = NewVelocity(@, n, tp)])

\* update_student_performance: a no-op for an unknown student id
UpdateStudentPerformance(students, p, t, d, q) ==
    IF p.student_id \notin students THEN p ELSE ApplyUpdate(p, t, d, q)

----------------------------------------------------------------------------
(* Response Evaluator and the two agents *)

QuitWords == {"q", "quit", "exit"}

\* A response is its stripped, lower-cased word when it is a command word
\* ("" for the empty string, "spaces" for a non-empty string of blanks only,
\* "text" otherwise) and the length of its stripped text.
Resp(w, n) == [word |-> w, len |-> n]

\* input().strip() of the interactive driver
Strip(r) == IF r.word = "spaces" THEN Resp("", 0) ELSE r

\* mutant: the evaluator without its test for the empty string
IsSentinelWordsOnly(r) == r.word \in QuitWords

\* not user_response or user_response.strip().lower() in ['q', 'quit', 'exit']
IsSentinel(r) == r.word = "" \/ r.word \in QuitWords

\* length step function of evaluate_response
BaseReward(len) ==
    IF len >= 120 THEN SCALE
    ELSE IF len >= 60 THEN 7 * TENTH
    ELSE IF len >= 20 THEN 4 * TENTH
    ELSE TENTH

\* bonus for improvement in weak areas
WithBonus(base, p, t) ==
    IF t \in p.improvement_areas THEN Frac(base, 12, 10) ELSE base

\* difficulty_multiplier, in tenths
DifficultyMultiplier(d) ==
    CASE d = "easy" -> 10 [] d = "medium" -> 11 [] d = "hard" -> 12

\* the reward evaluate_response computes for a scored response
ResponseReward(p, t, d, len) ==
    Frac(WithBonus(BaseReward(len), p, t), DifficultyMultiplier(d), 10)

\* feedback_options lookup: low <= reward < high
FeedbackFor(r) ==
    IF r < 3 * TENTH THEN "Brief response"
    ELSE IF r < 6 * TENTH THEN "Good effort"
    ELSE IF r < 8 * TENTH THEN "Well-developed response"
    ELSE IF r < SCALE THEN "Excellent detailed response"
    ELSE "Outstanding response"

NoResponse == "No response provided"

PerfCap == 95 * (SCALE \div 100)

\* mutant: the DQN agent gaining as little per update as the PPO agent
DqnUpdateSlow(a, r) ==
    [ updates     |-> a.updates + 1,
      performance |-> Min(PerfCap, a.performance
                             + (IF r > 0 THEN 3 ELSE -3) * (SCALE \div 100)) ]

\* EnhancedDQNAgent.update (q_values is written under a fresh key on every
\* call and never read by the program: it is not part of the state here)
DqnUpdate(a, r) ==
    [ updates     |-> a.updates + 1,
      performance |-> Min(PerfCap, a.performance
                             + (IF r > 0 THEN 5 ELSE -5) * (SCALE \div 100)) ]

\* reward * (1 + engagement_factor * 0.2), to three decimals
AdaptedReward(r, p) ==
    ((r \div 1000) * ((SCALE + p.engagement_score \div 5) \div 1000))

\* EnhancedPPOAgent.update
PpoUpdate(a, r, p) ==
    [ policy_updates |-> a.policy_updates + 1,
      performance    |-> Min(PerfCap, a.performance
                             + (IF AdaptedReward(r, p) > 0 THEN 3 ELSE -3)
                               * (SCALE \div 100)) ]

NewDqn == [updates |-> 0, performance |-> HALF]
NewPpo == [policy_updates |-> 0, performance |-> HALF]

\* evaluate_response(user_response, sample_answer, topic, difficulty)
EvaluateResponse(r, t, d) ==
    /\ interaction_count' = interaction_count + 1
    /\ IF IsSentinel(r)
       THEN /\ reward' = 0
            /\ feedback' = NoResponse
            /\ UNCHANGED <<total_reward, dqn_agent, ppo_agent, orch_students,
                           student_profile, prev_profile, topic, difficulty,
                           response_quality, answered, update_calls>>
       ELSE LET rw == ResponseReward(student_profile, t, d, r.len) IN
            /\ prev_profile' = student_profile
            /\ reward' = rw
            /\ feedback' = FeedbackFor(rw)
            /\ total_reward' = total_reward + rw
            /\ dqn_agent' = DqnUpdate(dqn_agent, rw)
            /\ ppo_agent' = PpoUpdate(ppo_agent, rw, student_profile)
            /\ orch_students' = orch_students \cup {student_profile.student_id}
            /\ student_profile' =
                 UpdateStudentPerformance(orch_students', student_profile, t, d, rw)
            /\ topic' = t
            /\ difficulty' = d
            /\ response_quality' = rw
            /\ answered' = answered + 1
            /\ update_calls' = update_calls + 1

----------------------------------------------------------------------------
(* Direct calls of the tracker and of the evaluator on bounded inputs *)

\* the wall clock runs from 0 to MaxClock seconds
MaxClock == 1

\* student ids, as strings of characters
StudentIds == {<<"S", "1">>, <<"S", "1", "0">>}

\* strftime('%Y%m%d_%H%M%S'), one string per second
Stamp(c) == <<"t", <<"0", "1", "2", "3">>[c + 1]>>

\* f"{student_id}_{timestamp}"
SessionId(st, c) == st \o <<"_">> \o Stamp(c)

SessionIds == {SessionId(st, c) : st \in StudentIds, c \in 0..MaxClock}

\* a session id that is not a key of active_sessions
NoSession ==
    [ status |-> "absent", profile |-> NewProfile({}), started |-> FALSE,
      coordination_mode |-> "None", current_question |-> 0,
      cumulative_reward |-> 0, dqn_updates |-> 0, has_question |-> FALSE,
      question_topic |-> "None", question_difficulty |-> "None",
      question_number |-> 0, completed |-> FALSE ]

NoRecords == [interactions |-> 0, sessions |-> 0]

Json(ok, what) == [success |-> ok, body |-> what]

\* the web application after import: no session, empty result files
InitWeb ==
    /\ coordination = "None"
    /\ active_sessions = [s \in SessionIds |-> NoSession]
    /\ results_manager = [s \in SessionIds |-> NoRecords]
    /\ json_response = Json(TRUE, "home")
    /\ clock = 0

----------------------------------------------------------------------------
(* The human tutoring environment (human_tutoring_environment.py): state   *)

DifficultyLevels == {"EASY", "MEDIUM", "HARD"}

\* DifficultyLevel.value, as the motivation formulas read it (0.03, 0.05, 0.07)
DifficultyValue(d) == CASE d = "EASY" -> 1 [] d = "MEDIUM" -> 2 [] OTHER -> 3

\* env.human_student = None
NoStudent ==
    [ present |-> FALSE, questions_answered |-> 0, correct_answers |-> 0,
      hints_used |-> 0, current_motivation |-> 0, fatigue |-> 0,
      knowledge_levels |-> [t \in Topics |-> 0], recent_questions |-> <<>> ]

\* HumanStudent(name)
HumanStudent ==
    [ present |-> TRUE, questions_answered |-> 0, correct_answers |-> 0,
      hints_used |-> 0, current_motivation |-> 8 * TENTH, fatigue |-> 0,
      knowledge_levels |-> [t \in Topics |-> HALF], recent_questions |-> <<>> ]

\* env.current_question = None
NoQuestion == [asked |-> FALSE, topic |-> "None", difficulty |-> "None",
               content |-> <<>>]

NoShown == [displayed |-> <<>>, checked |-> <<>>]

Returned(call, raised, n) == [call |-> call, raised |-> raised, state_len |-> n]

\* HumanTutoringEnvironment(config_path, student_name)
InitEnv ==
    /\ episode_step = 0
    /\ human_student = NoStudent
    /\ current_question = NoQuestion
    /\ shown = NoShown
    /\ returned = Returned("__init__", FALSE, 0)

GridSteps == 2

\* values 0, 1/GridSteps, ..., 1
PerfGrid == {(i * SCALE) \div GridSteps : i \in 0..GridSteps}

\* response_quality arguments: the grid and the counter thresholds
Qualities == PerfGrid \cup {6 * TENTH, 8 * TENTH, 9 * TENTH}

\* (total_questions_answered, correct_responses, detailed_responses) before the call
CountChoices == {<<0, 0, 0>>, <<5, 3, 1>>}

DemoPreferred == {"programming", "mathematics"}

\* A profile between two updates: the areas are those of the last
\* _update_learning_areas, the velocity that of the last recomputation.
GridProfile(tp, g, cnt) ==
    UpdateLearningAreas(
      [NewProfile(DemoPreferred) EXCEPT
         !.topic_performance        = tp,
         !.overall_performance      = g,
         !.difficulty_performance   = [d \in Difficulties |-> g],
         !.engagement_score         = Max(TENTH, g),
         !.total_questions_answered = cnt[1],
         !.correct_responses        = cnt[2],
         !.detailed_responses       = cnt[3],
         !.learning_velocity        = NewVelocity(0, cnt[1], tp)])

GridProfiles ==
    {GridProfile(tp, g, cnt) :
        tp \in [Topics -> PerfGrid], g \in PerfGrid, cnt \in CountChoices}

InitOrchestrator(name, p, t, d, q, r, m, dqn, ppo) ==
    /\ pc = "call"
    /\ driver = name
    /\ mode = m
    /\ student_profile = p
    /\ demo_students = {p.student_id}
    /\ orch_students = {}
    /\ dqn_agent = dqn
    /\ ppo_agent = ppo
    /\ interaction_count = 0
    /\ total_reward = 0
    /\ round_num = 0
    /\ topic = t
    /\ difficulty = d
    /\ user_response = r
    /\ reward = 0
    /\ feedback = ""
    /\ response_quality = q
    /\ prev_profile = p
    /\ answered = 0
    /\ presented = 0
    /\ update_calls = 0
    /\ quit_seen = FALSE
    /\ empty_seen = FALSE
    /\ saved_interactions = 0
    /\ saved_summaries = 0
    /\ InitWeb
    /\ InitEnv

InitCall(name, p, t, d, q, r) ==
    InitOrchestrator(name, p, t, d, q, r, "collaborative", NewDqn, NewPpo)

InitUpdate ==
    \E p \in GridProfiles, t \in Topics, d \in Difficulties, q \in Qualities :
        InitCall("update", p, t, d, q, Resp("", 0))

\* progress_manager.update_student_performance(id, topic, difficulty, quality, _)
CallUpdate ==
    /\ pc = "call"
    /\ driver = "update"
    /\ pc' = "returned"
    /\ prev_profile' = student_profile
    /\ student_profile' =
         UpdateStudentPerformance(demo_students, student_profile,
                                  topic, difficulty, response_quality)
    /\ update_calls' = update_calls + 1
    /\ UNCHANGED <<envVars, webVars, driver, demo_students, orch_students, orchVars, roundVars,
                   response_quality, answered, presented, quit_seen, empty_seen,
                   saved_interactions, saved_summaries>>

SpecUpdate == InitUpdate /\ [][CallUpdate]_vars

\* profiles handed to a direct evaluator call
EvalProfiles ==
    {GridProfile(tp, HALF, <<0, 0, 0>>) : tp \in [Topics -> PerfGrid]}

\* responses handed to a direct evaluator call: the command words, blank
\* strings, and texts on both sides of every length threshold in use
EvalResponses ==
    {Resp(w, 0) : w \in {"", "spaces"}}
      \cup {Resp("q", 1), Resp("quit", 4), Resp("exit", 4), Resp("progress", 8)}
      \cup {Resp("text", n) :
              n \in {1, 9, 10, 19, 20, 49, 50, 59, 60, 99, 100, 119, 120, 130}}

InitEvaluate ==
    \E p \in EvalProfiles, t \in Topics, d \in Difficulties,
       r \in EvalResponses :
        InitCall("evaluate", p, t, d, 0, r)

\* orchestrator.evaluate_response(user_response, sample_answer, topic, difficulty)
CallEvaluate ==
    /\ pc = "call"
    /\ driver = "evaluate"
    /\ pc' = "returned"
    /\ EvaluateResponse(user_response, topic, difficulty)
    /\ UNCHANGED <<envVars, webVars, driver, demo_students, mode, round_num, user_response,
                   presented, quit_seen, empty_seen, saved_interactions,
                   saved_summaries>>

SpecEvaluate == InitEvaluate /\ [][CallEvaluate]_vars

----------------------------------------------------------------------------
(* Adaptive Selector and Coordination Policy *)

\* mutant: select_topic without the boost for improvement areas
TopicWeightNoBoost(p, t) ==
    SCALE + (IF t \in p.preferred_topics THEN 3 * TENTH ELSE 0)
          + Frac(SCALE - p.topic_performance[t], 3, 10)

\* weight of one topic in select_topic
TopicWeight(p, t) ==
    SCALE + (IF t \in p.preferred_topics THEN 3 * TENTH ELSE 0)
          + (IF t \in p.improvement_areas THEN 4 * TENTH ELSE 0)
          + Frac(SCALE - p.topic_performance[t], 3, 10)

\* outcomes of random.choices(topics, weights=weights)
SelectTopic(p) == {t \in Topics : TopicWeight(p, t) > 0}

\* mutant: select_difficulty with the band limits in the outer bands
SelectDifficultyInclusive(p) ==
    IF p.overall_performance <= 4 * TENTH THEN {"easy"}
    ELSE IF p.overall_performance >= 7 * TENTH THEN {"medium", "hard"}
    ELSE {"easy", "medium"}

\* outcomes of select_difficulty
SelectDifficulty(p) ==
    IF p.overall_performance < 4 * TENTH THEN {"easy"}
    ELSE IF p.overall_performance > 7 * TENTH THEN {"medium", "hard"}
    ELSE {"easy", "medium"}

\* mutant: the DQN agent also leading on a tie
DqnLeadsOnTie(dqn, ppo) == dqn.performance >= ppo.performance

\* if self.dqn_agent.performance > self.ppo_agent.performance
DqnLeads(dqn, ppo) == dqn.performance > ppo.performance

\* (topic, difficulty) pairs coordinate_agents can return
CoordinateAgents(m, p, dqn, ppo) ==
    IF m \in {"hierarchical", "collaborative"}
    THEN SelectTopic(p) \X SelectDifficulty(p)
    ELSE IF DqnLeads(dqn, ppo)
         THEN Topics \X SelectDifficulty(p)
         ELSE SelectTopic(p) \X Difficulties

\* the description coordinate_agents returns with the pair
CoordinationOf(m, dqn, ppo) ==
    IF m = "hierarchical" THEN "Hierarchical"
    ELSE IF m = "collaborative" THEN "Collaborative"
    ELSE IF DqnLeads(dqn, ppo) THEN "Competitive: DQN leads"
    ELSE "Competitive: PPO leads"

\* overall_performance values handed to a direct selector call: both sides
\* of the two band limits and the limits themselves
SelectOveralls ==
    {0, 39 * (SCALE \div 100), 4 * TENTH, 55 * (SCALE \div 100), 7 * TENTH,
     71 * (SCALE \div 100), SCALE}

\* topic_performance values of a direct selector call, up to the largest
\* score the evaluator can feed into the tracker
SelectPerfs == {0, HALF, 144 * (SCALE \div 100)}

\* profiles handed to a direct selector call
SelectProfiles ==
    {[NewProfile(pt) EXCEPT !.overall_performance = g,
                            !.topic_performance   = tp,
                            !.improvement_areas   = ia] :
        pt \in {{}, DemoPreferred},
        g  \in SelectOveralls,
        tp \in [Topics -> SelectPerfs],
        ia \in {{}, {"mathematics"}, {"science", "language"}}}

\* agent performances of a direct coordinate_agents call
AgentPerfs == {45 * (SCALE \div 100), HALF, 55 * (SCALE \div 100)}

InitSelect ==
    \/ \E p \in SelectProfiles :
          \E name \in {"select_difficulty", "select_topic"} :
            InitCall(name, p, "None", "None", 0, Resp("", 0))
    \/ \E p \in SelectProfiles, m \in Modes :
          \E a \in AgentPerfs, b \in AgentPerfs :
            /\ p.topic_performance = [t \in Topics |-> HALF]
            /\ InitOrchestrator("coordinate", p, "None", "None", 0, Resp("", 0),
                                m, [NewDqn EXCEPT !.performance = a],
                                [NewPpo EXCEPT !.performance = b])

\* dqn_agent.select_difficulty(student_profile)
CallSelectDifficulty ==
    /\ pc = "call"
    /\ driver = "select_difficulty"
    /\ pc' = "returned"
    /\ difficulty' \in SelectDifficulty(student_profile)
    /\ UNCHANGED <<envVars, driver, profileVars, orchVars, round_num, topic,
                   user_response, reward, feedback, response_quality, histVars,
                   webVars>>

\* ppo_agent.select_topic(student_profile)
CallSelectTopic ==
    /\ pc = "call"
    /\ driver = "select_topic"
    /\ pc' = "returned"
    /\ topic' \in SelectTopic(student_profile)
    /\ UNCHANGED <<envVars, driver, profileVars, orchVars, round_num, difficulty,
                   user_response, reward, feedback, response_quality, histVars,
                   webVars>>

\* orchestrator.coordinate_agents()
CallCoordinate ==
    /\ pc = "call"
    /\ driver = "coordinate"
    /\ pc' = "returned"
    /\ \E x \in CoordinateAgents(mode, student_profile, dqn_agent, ppo_agent) :
          /\ topic' = x[1]
          /\ difficulty' = x[2]
    /\ coordination' = CoordinationOf(mode, dqn_agent, ppo_agent)
    /\ UNCHANGED <<envVars, driver, profileVars, orchVars, round_num, user_response,
                   reward, feedback, response_quality, histVars,
                   active_sessions, results_manager, json_response, clock>>

NextSelect == CallSelectDifficulty \/ CallSelectTopic \/ CallCoordinate

SpecSelect == InitSelect /\ [][NextSelect]_vars

----------------------------------------------------------------------------
(* The session drivers *)

NumRounds == 7

\* lengths of the seven auto_responses
AutoResponses == <<195, 118, 145, 146, 127, 136, 125>>

\* the student gives at most MaxAnswers text answers in an interactive session
MaxAnswers == 1

\* auto rounds in which every outcome of the random draws is explored; in
\* the rounds after them one outcome stands for all
WideRounds == 4

AnswerLengths == {5, 130}

\* what the student can type at the prompt
Inputs ==
    {Resp(w, 0) : w \in {"", "spaces"}}
      \cup {Resp("q", 1), Resp("quit", 4), Resp("exit", 4), Resp("progress", 8)}
      \cup {Resp("text", n) : n \in AnswerLengths}

NoProfile == [NewProfile({}) EXCEPT !.student_id = "None"]

Init ==
    /\ pc = "setup"
    /\ driver \in {"interactive", "auto"}
    /\ mode = "None"
    /\ student_profile = NoProfile
    /\ demo_students = {}
    /\ orch_students = {}
    /\ dqn_agent = NewDqn
    /\ ppo_agent = NewPpo
    /\ interaction_count = 0
    /\ total_reward = 0
    /\ round_num = 0
    /\ topic = "None"
    /\ difficulty = "None"
    /\ user_response = Resp("", 0)
    /\ reward = 0
    /\ feedback = ""
    /\ response_quality = 0
    /\ prev_profile = NoProfile
    /\ answered = 0
    /\ presented = 0
    /\ update_calls = 0
    /\ quit_seen = FALSE
    /\ empty_seen = FALSE
    /\ saved_interactions = 0
    /\ saved_summaries = 0
    /\ InitWeb
    /\ InitEnv

\* setup_student: a created profile or the demo profile, registered with the
\* driver's progress manager
SetupStudent ==
    /\ pc = "setup"
    /\ driver = "interactive"
    /\ student_profile' = NewProfile(DemoPreferred)
    /\ prev_profile' = student_profile'
    /\ demo_students' = demo_students \cup {DemoStudentId}
    /\ pc' = "select_mode"
    /\ UNCHANGED <<envVars, webVars, driver, orch_students, orchVars, roundVars, response_quality,
                   answered, presented, update_calls, quit_seen, empty_seen,
                   saved_interactions, saved_summaries>>

ModeOfChoice(c) ==
    CASE c = "1" -> "hierarchical" [] c = "2" -> "collaborative"
      [] c = "3" -> "competitive"

\* select_mode, then the orchestrator's constructor
SelectMode(c) ==
    /\ pc = "select_mode"
    /\ IF c \in {"1", "2", "3"}
       THEN /\ mode' = ModeOfChoice(c)
            /\ pc' = "round"
       ELSE UNCHANGED <<mode, pc>>
    /\ UNCHANGED <<envVars, webVars, driver, profileVars, dqn_agent, ppo_agent, interaction_count,
                   total_reward, roundVars, response_quality, histVars>>

\* mutant: the session loop recognising 'q' only
IsQuitShort(r) == r.word = "q"

\* if user_response.lower() in ['q', 'quit', 'exit'] of the session loop
IsQuit(r) == r.word \in QuitWords

\* the draws of coordinate_agents that matter for a round: the question
\* drawn is used only when the response is scored
RoundDraws(raw) ==
    LET all == CoordinateAgents(mode, student_profile, dqn_agent, ppo_agent)
    IN IF raw.word # "text" THEN {CHOOSE x \in all : TRUE}
       ELSE IF answered < MaxAnswers THEN all
       ELSE {}

\* one pass of the loop body of run_learning_session
Round(tdp, raw) ==
    LET r == Strip(raw) IN
    /\ pc = "round"
    /\ driver = "interactive"
    /\ round_num < NumRounds
    /\ round_num' = round_num + 1
    /\ presented' = presented + 1
    /\ UNCHANGED <<envVars, webVars, driver, demo_students, mode, user_response, saved_summaries>>
    /\ quit_seen' = (quit_seen \/ r.word \in {"q", "quit", "exit"})
    /\ IF IsQuit(r)
       THEN /\ pc' = "finish"
            /\ UNCHANGED <<student_profile, orch_students, dqn_agent, ppo_agent,
                           interaction_count, total_reward, topic, difficulty,
                           reward, feedback, response_quality, prev_profile,
                           answered, update_calls, empty_seen,
                           saved_interactions>>
       ELSE IF r.word = "progress"
       THEN /\ pc' = "round"
            /\ UNCHANGED <<student_profile, orch_students, dqn_agent, ppo_agent,
                           interaction_count, total_reward, topic, difficulty,
                           reward, feedback, response_quality, prev_profile,
                           answered, update_calls, empty_seen,
                           saved_interactions>>
       ELSE /\ EvaluateResponse(r, tdp[1], tdp[2])
            /\ saved_interactions' = saved_interactions + 1
            /\ empty_seen' = (empty_seen \/ r.word = "")
            /\ pc' = "round"

\* mutant: the session ending without its summary
FinishSessionNoSummary ==
    /\ driver = "interactive"
    /\ pc = "finish" \/ (pc = "round" /\ round_num = NumRounds)
    /\ prev_profile' = student_profile
    /\ student_profile' = [student_profile EXCEPT !.session_count = @ + 1]
    /\ pc' = "done"
    /\ UNCHANGED <<envVars, webVars, driver, demo_students, orch_students, orchVars,
                   roundVars, response_quality, answered, presented,
                   update_calls, quit_seen, empty_seen, saved_interactions,
                   saved_summaries>>

\* after the loop of run_learning_session: session bookkeeping and summary
FinishSession ==
    /\ driver = "interactive"
    /\ pc = "finish" \/ (pc = "round" /\ round_num = NumRounds)
    /\ prev_profile' = student_profile
    /\ student_profile' = [student_profile EXCEPT !.session_count = @ + 1]
    /\ saved_summaries' = saved_summaries + 1
    /\ pc' = "done"
    /\ UNCHANGED <<envVars, webVars, driver, demo_students, orch_students, orchVars, roundVars,
                   response_quality, answered, presented, update_calls,
                   quit_seen, empty_seen, saved_interactions>>

\* run_auto_demo up to the session loop: demo profile, collaborative mode
AutoStart ==
    /\ pc = "setup"
    /\ driver = "auto"
    /\ student_profile' = NewProfile(DemoPreferred)
    /\ prev_profile' = student_profile'
    /\ demo_students' = demo_students \cup {DemoStudentId}
    /\ mode' = "collaborative"
    /\ pc' = "round"
    /\ UNCHANGED <<envVars, webVars, driver, orch_students, dqn_agent, ppo_agent,
                   interaction_count, total_reward, roundVars, response_quality,
                   answered, presented, update_calls, quit_seen, empty_seen,
                   saved_interactions, saved_summaries>>

\* the draws explored in the auto round about to start
AutoDraws ==
    LET all == CoordinateAgents(mode, student_profile, dqn_agent, ppo_agent)
    IN IF round_num < WideRounds THEN all ELSE {CHOOSE x \in all : TRUE}

\* run_auto_learning_session, loop body up to evaluate_response
AutoEvaluate(tdp) ==
    /\ pc = "round"
    /\ driver = "auto"
    /\ round_num < NumRounds
    /\ round_num' = round_num + 1
    /\ presented' = presented + 1
    /\ saved_interactions' = saved_interactions + 1
    /\ EvaluateResponse(Resp("text", AutoResponses[round_num + 1]),
                        tdp[1], tdp[2])
    /\ pc' = "auto_update"
    /\ UNCHANGED <<envVars, webVars, driver, demo_students, mode, user_response, quit_seen,
                   empty_seen, saved_summaries>>

\* run_auto_learning_session, rest of the loop body: the driver's own
\* update_student_performance call and session_count += 1
AutoUpdate ==
    /\ pc = "auto_update"
    /\ prev_profile' = student_profile
    /\ student_profile' =
         [UpdateStudentPerformance(demo_students, student_profile,
                                   topic, difficulty, reward)
            EXCEPT !.session_count = @ + 1]
    /\ response_quality' = reward
    /\ update_calls' =
         update_calls + Bump(student_profile.student_id \in demo_students)
    /\ pc' = "round"
    /\ UNCHANGED <<envVars, webVars, driver, demo_students, orch_students, orchVars, roundVars,
                   answered, presented, quit_seen, empty_seen,
                   saved_interactions, saved_summaries>>

\* run_auto_learning_session after the loop: evaluation and session summary
AutoFinish ==
    /\ driver = "auto"
    /\ pc = "round"
    /\ round_num = NumRounds
    /\ saved_summaries' = saved_summaries + 1
    /\ pc' = "done"
    /\ UNCHANGED <<envVars, webVars, driver, profileVars, orchVars, roundVars, response_quality,
                   prev_profile, answered, presented, update_calls, quit_seen,
                   empty_seen, saved_interactions>>

Next ==
    \/ SetupStudent
    \/ \E c \in {"1", "2", "3", "x"} : SelectMode(c)
    \/ \E raw \in Inputs : \E tdp \in RoundDraws(raw) : Round(tdp, raw)
    \/ FinishSession
    \/ AutoStart
    \/ \E tdp \in AutoDraws : AutoEvaluate(tdp)
    \/ AutoUpdate
    \/ AutoFinish

Spec == Init /\ [][Next]_vars

\* an interactive session with any number of text answers, one outcome of
\* the draws of each round standing for all
OneDraw ==
    CHOOSE x \in CoordinateAgents(mode, student_profile, dqn_agent, ppo_agent) :
        TRUE

NextInteractive ==
    \/ SetupStudent
    \/ \E c \in {"1", "2", "3", "x"} : SelectMode(c)
    \/ \E raw \in Inputs : Round(OneDraw, raw)
    \/ FinishSession

InitInteractive == Init /\ driver = "interactive"

SpecInteractive == InitInteractive /\ [][NextInteractive]_vars

\* the interactive session under weak fairness: the program takes its next
\* step whenever it has one
SpecInteractiveFair == SpecInteractive /\ WF_vars(NextInteractive)

\* the sessions together with direct calls of the tracker
SpecAll == (Init \/ InitUpdate) /\ [][Next \/ CallUpdate]_vars

\* the sessions together with direct calls of the selector
SpecSelectAll == (Init \/ InitSelect) /\ [][Next \/ NextSelect]_vars

----------------------------------------------------------------------------
(* The web application (professional_fastapi_app.py) *)

demoVars == <<pc, driver, profileVars, orchVars, roundVars, response_quality,
              histVars>>

\* session_data['total_questions']
TotalQuestions == 7

\* at most MaxSubmits responses are recorded in all
MaxSubmits == 8

\* at most MaxSummaries summaries are written for one session id
MaxSummaries == 2

\* preferred_topics lists a client can post
WebPreferred == {{}, {"mathematics"}, {"mathematics", "history"}}

\* coordination_mode strings a client can post
WebModes == {"collaborative", "competitive", "peer"}

\* lengths of the responses a client can post
WebLengths == {9, 100}

\* length step function of submit_response
WebReward(len) ==
    IF len < 10 THEN TENTH
    ELSE IF len < 50 THEN 3 * TENTH
    ELSE IF len < 100 THEN 6 * TENTH
    ELSE 8 * TENTH

WebFeedback(len) ==
    IF len < 10 THEN "Brief response"
    ELSE IF len < 50 THEN "Good start"
    ELSE IF len < 100 THEN "Well-developed response"
    ELSE "Excellent detailed response"

\* len(interactions) for the records of a set of session ids
TotalInteractions(ids) ==
    SumOver([s \in SessionIds |-> results_manager[s].interactions], ids)

\* session_id in active_sessions
IsActive(sid) == active_sessions[sid].status = "active"

NotFound == Json(FALSE, "Session not found")

Outcome(sd, resp, n) == [session |-> sd, response |-> resp, summary |-> n]

\* complete_session: the summary is saved and the session marked completed
CompleteSession(sd) ==
    Outcome([sd EXCEPT !.completed = TRUE], Json(TRUE, "complete"), 1)

\* get_next_question: the session data, the response and the number of
\* summaries saved, for every outcome of the random draws
GetNextQuestion(sd) ==
    IF ~sd.started
    THEN {Outcome(sd, Json(FALSE, "KeyError: current_question"), 0)}
    ELSE IF sd.current_question >= TotalQuestions
    THEN {CompleteSession(sd)}
    ELSE IF sd.profile.preferred_topics = {}
    THEN {Outcome(sd, Json(FALSE, "IndexError"), 0)}
    ELSE {IF t \in Topics
          THEN Outcome([sd EXCEPT !.has_question        = TRUE,
                                  !.question_topic      = t,
                                  !.question_difficulty = d,
                                  !.question_number     = sd.current_question + 1],
                       Json(TRUE, "question"), 0)
          ELSE Outcome(sd, Json(FALSE, "KeyError: topic"), 0) :
            t \in sd.profile.preferred_topics, d \in Difficulties}

Apply(sid, o) ==
    /\ results_manager[sid].sessions + o.summary <= MaxSummaries
    /\ active_sessions' = [active_sessions EXCEPT ![sid] = o.session]
    /\ results_manager' =
         [results_manager EXCEPT ![sid].sessions = @ + o.summary]
    /\ json_response' = o.response

\* POST /api/create_student: the entry is stored under the id made of the
\* student id and the current second
CreateStudent(st, pt) ==
    /\ active_sessions' =
         [active_sessions EXCEPT
            ![SessionId(st, clock)] =
               [NoSession EXCEPT !.status = "active",
                                 !.profile = [NewProfile(pt) EXCEPT
                                                !.student_id = st]]]
    /\ json_response' = Json(TRUE, "created")
    /\ UNCHANGED <<envVars, demoVars, coordination, results_manager, clock>>

\* a second passes
Tick ==
    /\ clock < MaxClock
    /\ clock' = clock + 1
    /\ UNCHANGED <<envVars, demoVars, coordination, active_sessions, results_manager,
                   json_response>>

\* POST /api/start_session
StartSession(sid, m) ==
    /\ IF ~IsActive(sid)
       THEN /\ json_response' = NotFound
            /\ UNCHANGED <<active_sessions, results_manager>>
       ELSE \E o \in GetNextQuestion(
                       [active_sessions[sid] EXCEPT
                          !.started = TRUE, !.coordination_mode = m,
                          !.current_question = 0, !.cumulative_reward = 0,
                          !.dqn_updates = 0]) :
              Apply(sid, o)
    /\ UNCHANGED <<envVars, demoVars, coordination, clock>>

\* POST /api/submit_response
SubmitResponse(sid, len) ==
    /\ IF ~IsActive(sid)
       THEN /\ json_response' = NotFound
            /\ UNCHANGED <<active_sessions, results_manager>>
       ELSE IF ~active_sessions[sid].has_question
       THEN /\ json_response' = Json(FALSE, "KeyError: current_question_info")
            /\ UNCHANGED <<active_sessions, results_manager>>
       ELSE /\ TotalInteractions(SessionIds) < MaxSubmits
            /\ active_sessions' =
                 [active_sessions EXCEPT
                    ![sid].cumulative_reward = @ + WebReward(len),
                    ![sid].current_question  = @ + 1,
                    ![sid].dqn_updates       = @ + 1]
            /\ results_manager' =
                 [results_manager EXCEPT ![sid].interactions = @ + 1]
            /\ json_response' = Json(TRUE, WebFeedback(len))
    /\ UNCHANGED <<envVars, demoVars, coordination, clock>>

\* GET /api/continue/{session_id}
ContinueSession(sid) ==
    /\ IF ~IsActive(sid)
       THEN /\ json_response' = NotFound
            /\ UNCHANGED <<active_sessions, results_manager>>
       ELSE \E o \in GetNextQuestion(active_sessions[sid]) : Apply(sid, o)
    /\ UNCHANGED <<envVars, demoVars, coordination, clock>>

\* POST /api/restart
RestartSystem ==
    /\ active_sessions' =
         [s \in SessionIds |->
            IF IsActive(s) THEN NoSession ELSE active_sessions[s]]
    /\ json_response' = Json(TRUE, "Restarting...")
    /\ UNCHANGED <<envVars, demoVars, coordination, results_manager, clock>>

InitWebApp ==
    InitCall("web", NoProfile, "None", "None", 0, Resp("", 0))

\* one client whose requests all fall into one second
WebStudent == <<"S", "1">>

\* the ids that client sends: its session's and one that names no session
WebRequestIds == {SessionId(WebStudent, c) : c \in 0..1}

NextWeb ==
    \/ \E pt \in WebPreferred : CreateStudent(WebStudent, pt)
    \/ \E sid \in WebRequestIds, m \in WebModes : StartSession(sid, m)
    \/ \E sid \in WebRequestIds, len \in WebLengths : SubmitResponse(sid, len)
    \/ \E sid \in WebRequestIds : ContinueSession(sid)
    \/ RestartSystem

SpecWeb == InitWebApp /\ [][NextWeb]_vars

\* str.startswith
StartsWith(s, p) == Len(p) <= Len(s) /\ SubSeq(s, 1, Len(p)) = p

\* generate_student_report: total_interactions of the report
ReportInteractions(st) ==
    TotalInteractions({sid \in SessionIds : StartsWith(sid, st)})

\* at most MaxShared responses are recorded when several clients are served
MaxShared == 2

\* submit_response while fewer than MaxShared responses are recorded
SharedSubmit(sid) ==
    TotalInteractions(SessionIds) < MaxShared /\ SubmitResponse(sid, 100)

\* several clients, over more than one second
NextClients ==
    \/ \E st \in StudentIds : CreateStudent(st, {"mathematics"})
    \/ Tick
    \/ \E sid \in SessionIds : StartSession(sid, "collaborative")
    \/ \E sid \in SessionIds : SharedSubmit(sid)
    \/ \E sid \in SessionIds : ContinueSession(sid)
    \/ RestartSystem

SpecClients == InitWebApp /\ [][NextClients]_vars

----------------------------------------------------------------------------
(* Properties *)

\* the ranges the data model gives the performance fields
InRange(p) ==
    /\ p.overall_performance \in 0..SCALE
    /\ \A t \in Topics : p.topic_performance[t] \in 0..SCALE
    /\ \A d \in Difficulties : p.difficulty_performance[d] \in 0..SCALE
    /\ p.engagement_score \in TENTH..SCALE

\* mean of the four topic scores
MeanTopic(p) ==
    (p.topic_performance["mathematics"] + p.topic_performance["science"]
       + p.topic_performance["programming"] + p.topic_performance["language"])
      \div 4

\* x is num/10 of the sum, up to the rounding of the last digit
TenthsOf(x, sum) == 10 * x <= sum /\ sum < 10 * x + 10

\* C1: for an in-range profile and a response_quality in [0,1], one call of
\* update_student_performance leaves overall_performance, every topic and
\* difficulty entry within [0,1] and engagement_score within [0.1,1.0].
C1_UpdateKeepsRanges ==
    (pc = "returned" /\ driver = "update" /\ InRange(prev_profile)
       /\ response_quality \in 0..SCALE)
      => InRange(student_profile)

\* the clamp acts: engagement 1.0 and quality 1.0 stay at 1.0
C1_Witness ==
    /\ pc = "returned" /\ driver = "update" /\ InRange(prev_profile)
    /\ prev_profile.engagement_score = SCALE
    /\ response_quality = SCALE
    /\ student_profile.engagement_score = SCALE

\* C2: in every state of a learning session the engagement score is within
\* [0.1,1.0] and overall, topic and difficulty performance within [0,1].
C2_SessionKeepsRanges == InRange(student_profile)

\* C3: the reward evaluate_response returns is within [0,1] for every
\* response length, difficulty and improvement-area membership.
C3_RewardInUnitInterval ==
    (pc = "returned" /\ driver = "evaluate") => reward \in 0..SCALE

\* C4: at every round boundary the profile has been updated once per
\* answered question: total_questions_answered equals the number of
\* responses scored, in both drivers and all modes.
C4_OneUpdatePerAnswer ==
    pc \in {"round", "finish", "done"}
      => /\ student_profile.total_questions_answered = answered
         /\ update_calls = answered

\* C5: evaluate_response on an empty response or a quit word returns 0.0
\* with the "no response" label and leaves the StudentProfile unchanged.
C5_SentinelLeavesProfile ==
    (pc = "returned" /\ driver = "evaluate"
       /\ user_response.word \in {"", "q", "quit", "exit"})
      => /\ reward = 0
         /\ feedback = "No response provided"
         /\ student_profile = prev_profile
         /\ update_calls = 0

\* a quit word has been evaluated against a profile with weak areas
C5_Witness ==
    /\ pc = "returned" /\ driver = "evaluate"
    /\ user_response.word = "quit"
    /\ reward = 0 /\ interaction_count = 1
    /\ student_profile.improvement_areas # {}

\* C6 as stated: once the student has supplied a quit word or an empty
\* response, no further round is presented and no update is performed.
C6_SentinelEndsSession ==
    [][(quit_seen \/ empty_seen)
         => (presented' = presented /\ update_calls' = update_calls)]_vars

\* C6 amended: once a quit word is supplied no further round is presented
\* and nothing is scored or updated; a round answered with an empty
\* response or a quit word performs no profile update, and after an empty
\* response the session goes on.
C6_QuitEndsSession ==
    [][/\ quit_seen
            => /\ presented' = presented
               /\ round_num' = round_num
               /\ update_calls' = update_calls
               /\ interaction_count' = interaction_count
       /\ (presented' # presented /\ answered' = answered)
            => /\ update_calls' = update_calls
               /\ student_profile' = student_profile
       /\ (interaction_count' # interaction_count /\ answered' = answered)
            => (reward' = 0 /\ pc' = "round")]_vars

\* a session ended by a quit word before its seventh round, after an empty
\* response that did not end it
C6_Witness ==
    /\ driver = "interactive" /\ pc = "done"
    /\ quit_seen /\ empty_seen
    /\ round_num < NumRounds /\ answered > 0

\* C7: one update sets overall to 0.9*old + 0.1*q, the topic's and the
\* difficulty's entry to 0.8*old + 0.2*q and leaves every other entry
\* unchanged; from overall 0.5 and topic 0.5 with q = 0.9: 0.54 and 0.58.
C7_UpdateIsEma ==
    (pc = "returned" /\ driver = "update")
      => LET old == prev_profile
             new == student_profile
             q   == response_quality
         IN /\ TenthsOf(new.overall_performance,
                        9 * old.overall_performance + q)
            /\ TenthsOf(new.topic_performance[topic],
                        8 * old.topic_performance[topic] + 2 * q)
            /\ TenthsOf(new.difficulty_performance[difficulty],
                        8 * old.difficulty_performance[difficulty] + 2 * q)
            /\ \A t \in Topics \ {topic} :
                 new.topic_performance[t] = old.topic_performance[t]
            /\ \A d \in Difficulties \ {difficulty} :
                 new.difficulty_performance[d] = old.difficulty_performance[d]
            /\ (old.overall_performance = 500000
                  /\ old.topic_performance[topic] = 500000 /\ q = 900000)
                 => /\ new.overall_performance = 540000
                    /\ new.topic_performance[topic] = 580000

\* the scenario of the claim: 0.5 / 0.5 / 0.9, topic mathematics, medium
C7_Witness ==
    /\ pc = "returned" /\ driver = "update"
    /\ topic = "mathematics" /\ difficulty = "medium"
    /\ prev_profile.overall_performance = 500000
    /\ prev_profile.topic_performance["mathematics"] = 500000
    /\ response_quality = 900000
    /\ student_profile.overall_performance = 540000
    /\ student_profile.topic_performance["mathematics"] = 580000
    /\ student_profile.topic_performance["science"] = 1000000

\* the four counters of a profile
Counters(p) ==
    <<p.total_questions_answered, p.correct_responses, p.detailed_responses,
      p.session_count>>

\* C8: an update adds exactly 1 to total_questions_answered, 1 to
\* correct_responses exactly when quality > 0.6, 1 to detailed_responses
\* exactly when quality > 0.8, and no step of any operation decreases
\* one of the four counters.
C8_Counters ==
    [][LET old == student_profile
           new == student_profile'
           q   == response_quality'
       IN /\ \A i \in 1..4 : Counters(new)[i] >= Counters(old)[i]
          /\ update_calls' = update_calls + 1
               => /\ new.total_questions_answered
                       = old.total_questions_answered + 1
                  /\ new.correct_responses = old.correct_responses
                       + (IF q > 600000 THEN 1 ELSE 0)
                  /\ new.detailed_responses = old.detailed_responses
                       + (IF q > 800000 THEN 1 ELSE 0)
          /\ update_calls' = update_calls
               => /\ new.total_questions_answered = old.total_questions_answered
                  /\ new.correct_responses = old.correct_responses
                  /\ new.detailed_responses = old.detailed_responses]_vars

\* an update with a quality of exactly 0.6 that was not counted as correct
C8_Witness ==
    /\ pc = "returned" /\ driver = "update"
    /\ response_quality = 600000
    /\ student_profile.total_questions_answered = 6
    /\ student_profile.correct_responses = prev_profile.correct_responses

\* C9: learning_velocity is 0.0 while total_questions_answered is at most
\* 5, equals (mean topic score - 0.5) * 2 after every update from the one
\* that brings the count above 5, and is always within [-1,1].
C9_LearningVelocity ==
    LET p == student_profile
    IN /\ p.total_questions_answered <= 5 => p.learning_velocity = 0
       /\ p.total_questions_answered > 5
            => p.learning_velocity = (MeanTopic(p) - 500000) * 2
       /\ p.learning_velocity \in -SCALE..SCALE

\* the sixth answer has been counted and the velocity has left 0.0
C9_Witness ==
    /\ student_profile.total_questions_answered = 6
    /\ student_profile.learning_velocity > 0

\* C10: after an update strength_areas is exactly the set of topics scoring
\* above mean + 0.1 and improvement_areas the set scoring below mean - 0.1,
\* whatever the sets held before the update.
C10_AreasRecomputed ==
    (pc = "returned" /\ driver = "update")
      => LET p == student_profile
         IN \A t \in Topics :
              /\ t \in p.strength_areas
                   <=> p.topic_performance[t] > MeanTopic(p) + 100000
              /\ t \in p.improvement_areas
                   <=> p.topic_performance[t] < MeanTopic(p) - 100000

\* the update removed a topic from improvement_areas and one from
\* strength_areas
C10_Witness ==
    /\ pc = "returned" /\ driver = "update"
    /\ \E t \in Topics :
         t \in prev_profile.improvement_areas
           /\ t \notin student_profile.improvement_areas
    /\ student_profile.strength_areas # {}

\* C11: select_difficulty returns only EASY below 0.4, only MEDIUM or HARD
\* above 0.7 and only EASY or MEDIUM in between, the two limits included in
\* the middle band.
C11_DifficultyBands ==
    (pc = "returned" /\ driver = "select_difficulty") =>
      LET g == student_profile.overall_performance IN
      /\ g < 400000 => difficulty = "easy"
      /\ g > 700000 => difficulty \in {"medium", "hard"}
      /\ (g >= 400000 /\ g <= 700000) => difficulty \in {"easy", "medium"}

\* MEDIUM returned at exactly 0.4
C11_Witness ==
    /\ pc = "returned"
    /\ driver = "select_difficulty"
    /\ student_profile.overall_performance = 400000
    /\ difficulty = "medium"

\* C12: the weight of a topic in select_topic is 1.0, plus 0.3 if preferred,
\* plus 0.4 if an improvement area, plus 0.3 * (1 - topic_performance); a
\* topic in both sets outweighs a topic of equal performance in neither, and
\* in every profile state all four weights are positive and all four topics
\* can be drawn.
C12_TopicWeights ==
    LET p == student_profile
        W(t) == 1000000
                  + (IF t \in p.preferred_topics THEN 300000 ELSE 0)
                  + (IF t \in p.improvement_areas THEN 400000 ELSE 0)
                  + (3 * (1000000 - p.topic_performance[t])) \div 10
    IN
    /\ \A t \in {"mathematics", "science", "programming", "language"} :
         /\ TopicWeight(p, t) = W(t)
         /\ TopicWeight(p, t) > 0
         /\ t \in SelectTopic(p)
    /\ \A t, u \in {"mathematics", "science", "programming", "language"} :
         ( /\ t \in p.preferred_topics /\ t \in p.improvement_areas
           /\ u \notin p.preferred_topics /\ u \notin p.improvement_areas
           /\ p.topic_performance[t] = p.topic_performance[u] )
         => TopicWeight(p, t) > TopicWeight(p, u)
    /\ (pc = "returned" /\ driver = "select_topic") =>
         topic \in {"mathematics", "science", "programming", "language"}

\* a non-preferred topic scored above 1 is drawn although another topic of
\* the same score is both preferred and an improvement area
C12_Witness ==
    /\ pc = "returned"
    /\ driver = "select_topic"
    /\ topic = "science"
    /\ "science" \notin student_profile.preferred_topics
    /\ "science" \notin student_profile.improvement_areas
    /\ student_profile.topic_performance["science"] > 1000000
    /\ "mathematics" \in student_profile.preferred_topics
    /\ "mathematics" \in student_profile.improvement_areas
    /\ student_profile.topic_performance["mathematics"]
         = student_profile.topic_performance["science"]

C13_LengthStepFunction ==
    (pc = "returned" /\ driver = "evaluate" /\ user_response.word = "text") =>
      LET L == user_response.len IN
      /\ L < 10 => (reward = 100000 /\ feedback = "Brief response")
      /\ (L >= 10 /\ L < 50) =>
           (reward >= 300000 /\ reward <= 400000 /\ feedback = "Good effort")
      /\ (L >= 50 /\ L < 100) =>
           ( /\ reward >= 600000 /\ reward <= 700000
             /\ feedback = "Well-developed response" )
      /\ L >= 100 =>
           ( /\ reward >= 800000 /\ reward <= 1000000
             /\ feedback \in {"Excellent detailed response",
                              "Outstanding response"} )

\* C14: the coordination mode of a session is chosen once, before its first
\* round, and no later request changes it.
C14_ModeFixed ==
    [][\A s \in SessionIds :
         (active_sessions[s].started /\ active_sessions'[s].started) =>
           active_sessions'[s].coordination_mode
             = active_sessions[s].coordination_mode]_vars

\* C15: an unknown coordination-mode string is an error at session start: no
\* session starts and no question is presented under an unknown mode.
C15_UnknownModeRejected ==
    \A s \in SessionIds :
      (active_sessions[s].started \/ active_sessions[s].has_question) =>
        active_sessions[s].coordination_mode
          \in {"hierarchical", "collaborative", "competitive"}

\* C16: an empty preferred-topics set or a preferred topic outside the
\* catalog is rejected at session setup: no round is presented or scored
\* with such a profile.
C16_BadTopicsRejected ==
    \A s \in SessionIds :
      ( \/ active_sessions[s].has_question
        \/ active_sessions[s].current_question > 0 ) =>
        /\ active_sessions[s].profile.preferred_topics # {}
        /\ active_sessions[s].profile.preferred_topics
             \subseteq {"mathematics", "science", "programming", "language"}

\* C17: a selected (topic, difficulty) pair without catalog entries gets a
\* placeholder question; the round never fails on the catalog lookup.
C17_MissingEntryFallsBack ==
    json_response # [success |-> FALSE, body |-> "KeyError: topic"]

\* C19: the results manager receives one interaction record per round and
\* one summary per session: never more records than questions presented,
\* never a second summary.
C19_OneRecordEach ==
    \A s \in SessionIds :
      /\ results_manager[s].sessions <= 1
      /\ results_manager[s].interactions <= active_sessions[s].question_number
           \/ ~IsActive(s)

\* C20: once a response is scored the tracker is updated with the score
\* before the next question is chosen: the profile has counted every
\* response scored in the session.
C20_UpdateAfterScore ==
    \A s \in SessionIds :
      (IsActive(s) /\ active_sessions[s].started) =>
        active_sessions[s].profile.total_questions_answered
          = active_sessions[s].current_question

\* C24: in competitive mode with fresh agents the PPO path leads every
\* round before the first evaluated response and the DQN path every round
\* after it: each evaluated response raises the DQN performance by 0.05 and
\* the PPO performance by 0.03.
C24_LeaderOverSession ==
    (mode = "competitive" /\ pc = "round") =>
      /\ dqn_agent.performance = 500000 + 50000 * answered
      /\ ppo_agent.performance = 500000 + 30000 * answered
      /\ answered = 0 =>
           CoordinationOf(mode, dqn_agent, ppo_agent) = "Competitive: PPO leads"
      /\ answered >= 1 =>
           CoordinationOf(mode, dqn_agent, ppo_agent) = "Competitive: DQN leads"

\* the last round of a session in which every earlier round was answered
C24_Witness ==
    /\ mode = "competitive"
    /\ pc = "round"
    /\ round_num = 6
    /\ answered = 6
    /\ CoordinationOf(mode, dqn_agent, ppo_agent) = "Competitive: DQN leads"

\* C27: an interactive session ends after at most 7 rounds: answers, empty
\* lines and 'progress' each consume a round, at most 7 responses are
\* evaluated, and the summary is written once the rounds are over.
C27_SessionEnds ==
    /\ [](driver = "interactive" =>
            /\ round_num <= 7
            /\ presented = round_num
            /\ interaction_count <= round_num
            /\ saved_summaries = (IF pc = "done" THEN 1 ELSE 0))
    /\ (driver = "interactive") ~> (pc = "done" /\ saved_summaries = 1)

\* a session ended by its seventh round, with an answer, an empty line and
\* 'progress' commands among its rounds
C27_Witness ==
    /\ driver = "interactive"
    /\ pc = "done"
    /\ round_num = 7
    /\ ~quit_seen
    /\ empty_seen
    /\ answered = 1
    /\ interaction_count < 7
    /\ saved_summaries = 1

\* C30: in every profile state detailed_responses <= correct_responses
\* <= total_questions_answered.
C30_CounterOrder ==
    /\ student_profile.detailed_responses <= student_profile.correct_responses
    /\ student_profile.correct_responses
         <= student_profile.total_questions_answered

\* an update that raised all three counters, the three still different
C30_Witness ==
    /\ update_calls >= 1
    /\ student_profile.detailed_responses > prev_profile.detailed_responses
    /\ student_profile.detailed_responses < student_profile.correct_responses
    /\ student_profile.correct_responses
         < student_profile.total_questions_answered

\* C21: a profile is never deleted within a session: from its creation until
\* it completes, the session and its profile are found under its id.
C21_ProfileKept ==
    [][\A s \in SessionIds :
         (IsActive(s) /\ ~active_sessions[s].completed) =>
           /\ active_sessions'[s].status = "active"
           /\ active_sessions'[s].profile = active_sessions[s].profile]_vars

\* C26: in a web session current_question never exceeds total_questions, and
\* a presented question adds at most one reward and one recorded interaction.
C26_AnsweredWithinTotal ==
    \A s \in SessionIds :
      IsActive(s) =>
        /\ active_sessions[s].current_question <= 7
        /\ active_sessions[s].current_question
             <= active_sessions[s].question_number
        /\ active_sessions[s].cumulative_reward
             <= 800000 * active_sessions[s].question_number

\* C28: every successful create_student gets an entry of its own: a later
\* creation never overwrites an entry of active_sessions.
C28_OwnSessionEntry ==
    [][json_response' = [success |-> TRUE, body |-> "created"] =>
         \A s \in SessionIds :
           IsActive(s) => active_sessions'[s] = active_sessions[s]]_vars

\* C29: the report of a student counts exactly the interactions recorded
\* under that student's own sessions.
C29_ReportOwnInteractions ==
    \A a \in StudentIds :
      ReportInteractions(a)
        = TotalInteractions({SessionId(a, c) : c \in 0..MaxClock})
----------------------------------------------------------------------------
(* The human tutoring environment: HumanStudent and the reset/step cycle.  *)
(* Knowledge, motivation, fatigue and engagement are fixed-point values in *)
(* units of 1/SCALE.  A question text is <<topic, difficulty, i>>, the     *)
(* i-th entry of the list _generate_realistic_question holds for that      *)
(* topic and difficulty.                                                   *)

PoolSize == 10

RecentWindow == 5

DrawWidth == 1

MaxEnvSteps == 3

state_size == 15

QuestionsOf(tp, d) == [i \in 1..PoolSize |-> <<tp, d, i>>]

InSeq(x, sq) == \E i \in 1..Len(sq) : sq[i] = x

\* the outcomes of random.choice the model follows: the first DrawWidth
\* candidates of the list
FirstDraws(sq) == {sq[i] : i \in 1..Min(DrawWidth, Len(sq))}

\* _generate_realistic_question: a text not asked recently (any text once
\* all were), remembered among the last RecentWindow texts
GenerateRealisticQuestion(recent, tp, d) ==
    LET questions == QuestionsOf(tp, d)
        unseen    == SelectSeq(questions, LAMBDA q : ~InSeq(q, recent))
        kept      == IF unseen = <<>> THEN <<>> ELSE recent
        available == IF unseen = <<>> THEN questions ELSE unseen
        Remember(q) == LET r == Append(kept, q)
                       IN  IF Len(r) > RecentWindow THEN Tail(r) ELSE r
    IN  {[text |-> q, recent |-> Remember(q)] : q \in FirstDraws(available)}

\* what the student types: nothing, an answer _check_answer rejects, one it
\* accepts
UserAnswers == {"", "wrong", "right"}

\* _check_answer: the text it reads (none for an empty answer) and the verdict
CheckAnswer(user_answer, recent, q) ==
    IF user_answer = ""
    THEN {[is_correct |-> FALSE, text |-> <<>>, recent |-> recent]}
    ELSE LET texts == IF q.content # <<>>
                      THEN {[text |-> q.content, recent |-> recent]}
                      ELSE GenerateRealisticQuestion(recent, q.topic, q.difficulty)
         IN  {[is_correct |-> (user_answer = "right"), text |-> g.text,
               recent |-> g.recent] : g \in texts}

KnowledgeBoost(d, k) ==
    LET base == CASE d = "EASY" -> 80000 [] d = "MEDIUM" -> 120000
                  [] OTHER -> 180000
    IN  IF k < 3 * TENTH THEN Frac(base, 15, 10)
        ELSE IF k > 7 * TENTH THEN Frac(base, 7, 10)
        ELSE base

\* _update_after_question
UpdateAfterQuestion(hs, q, is_correct) ==
    LET k == hs.knowledge_levels[q.topic]
        v == DifficultyValue(q.difficulty)
    IN  [hs EXCEPT
          !.questions_answered = @ + 1,
          !.correct_answers = IF is_correct THEN @ + 1 ELSE @,
          !.knowledge_levels[q.topic] =
              IF is_correct THEN Min(SCALE, k + KnowledgeBoost(q.difficulty, k))
              ELSE Max(TENTH, k - 20000),
          !.current_motivation =
              IF is_correct THEN Min(SCALE, @ + 30000 + 20000 * (v - 1))
              ELSE Max(2 * TENTH, @ - (80000 - 20000 * (v - 1))),
          !.fatigue = Min(SCALE, @ + 50000)]

\* get_engagement_level; elapsed is session_time / 1800
GetEngagementLevel(hs, elapsed) ==
    LET performance_component ==
            IF hs.questions_answered > 0
            THEN (hs.correct_answers * SCALE) \div hs.questions_answered
            ELSE HALF
        time_component == Max(3 * TENTH, SCALE - elapsed)
        engagement == (hs.current_motivation + (SCALE - hs.fatigue)
                       + performance_component + time_component) \div 4
    IN  Max(TENTH, Min(SCALE, engagement))

\* answer_question: each _display_* method prints a text it generates, the
\* answer is read, checked, and the student updated
AnswerQuestion(hs, q, user_answer) ==
    UNION {
      { [ student |-> UpdateAfterQuestion(
                        [hs EXCEPT !.recent_questions = c.recent], q,
                        c.is_correct),
          shown |-> [displayed |-> g.text, checked |-> c.text] ]
        : c \in CheckAnswer(user_answer, g.recent, q) }
      : g \in GenerateRealisticQuestion(hs.recent_questions, q.topic,
                                        q.difficulty) }

\* the topics the model lets _select_question draw
AskTopics == {"mathematics", "language"}

\* _select_question: every topic and every difficulty keeps a positive
\* weight, so any of them can be drawn; content is a generated text
SelectQuestion(hs) ==
    UNION {
      { [ question |-> [asked |-> TRUE, topic |-> tp, difficulty |-> d,
                        content |-> g.text],
          student |-> [hs EXCEPT !.recent_questions = g.recent] ]
        : g \in GenerateRealisticQuestion(hs.recent_questions, tp, d) }
      : tp \in AskTopics, d \in DifficultyLevels }

\* take_break
TakeBreakOf(hs) ==
    [hs EXCEPT !.fatigue = Max(0, @ - 3 * TENTH),
               !.current_motivation = Min(SCALE, @ + TENTH)]

\* _ask_human_question
AskHumanQuestion(hs) ==
    UNION {
      UNION {
        { [student |-> o.student, question |-> s.question, shown |-> o.shown]
          : o \in AnswerQuestion(s.student, s.question, a) }
        : a \in UserAnswers }
      : s \in SelectQuestion(hs) }

\* _provide_human_hint
ProvideHumanHint(hs, cq, sh) ==
    IF ~cq.asked
    THEN {[student |-> hs, question |-> cq, shown |-> sh]}
    ELSE {[student |-> [hs EXCEPT !.hints_used = @ + 1], question |-> cq,
           shown |-> sh]}

\* _explain_to_human
ExplainToHuman(hs, cq, sh) ==
    { [ student |-> [hs EXCEPT
                      !.current_motivation = Min(SCALE, @ + TENTH),
                      !.knowledge_levels[tp] = Min(SCALE, @ + 50000)],
        question |-> cq, shown |-> sh ]
      : tp \in IF cq.asked THEN {cq.topic} ELSE Topics }

\* the student after _review_with_human, motivation left unbounded
ReviewWithHumanUnclamped(hs) ==
    [hs EXCEPT !.fatigue = Max(0, @ - 2 * TENTH),
               !.current_motivation = @ + 150000]

\* the student after _review_with_human
ReviewWithHuman(hs) ==
    [hs EXCEPT !.fatigue = Max(0, @ - 2 * TENTH),
               !.current_motivation = Min(SCALE, @ + 150000)]

\* ActionType: the four members _execute_action handles, and "OTHER" for
\* each of the remaining ones
ActionTypes == {"ASK_QUESTION", "PROVIDE_HINT", "EXPLAIN_CONCEPT",
                "REVIEW_PREVIOUS", "OTHER"}

\* _execute_action
ExecuteAction(action, hs, cq, sh) ==
    CASE action = "ASK_QUESTION"    -> AskHumanQuestion(hs)
      [] action = "PROVIDE_HINT"    -> ProvideHumanHint(hs, cq, sh)
      [] action = "EXPLAIN_CONCEPT" -> ExplainToHuman(hs, cq, sh)
      [] action = "REVIEW_PREVIOUS" ->
           {[student |-> ReviewWithHuman(hs), question |-> cq, shown |-> sh]}
      [] OTHER -> {[student |-> hs, question |-> cq, shown |-> sh]}

\* readings of the clock and of the configuration that enter the state
\* vector: session_time / 1800, avg_response_time / 30 capped at 1,
\* episode_step / max_episode_steps capped at 1
Timings == { [elapsed |-> 0, response |-> 0, progress |-> 0],
             [elapsed |-> 8 * TENTH, response |-> SCALE, progress |-> SCALE] }

\* _get_state
GetState(hs, t) ==
    IF ~hs.present
    THEN [i \in 1..state_size |-> 0]
    ELSE LET accuracy == IF hs.questions_answered = 0 THEN 0
                         ELSE (hs.correct_answers * SCALE)
                                \div hs.questions_answered
             engagement == GetEngagementLevel(hs, t.elapsed)
         IN  <<accuracy, engagement, HALF, hs.current_motivation, hs.fatigue>>
             \o <<hs.knowledge_levels["mathematics"],
                  hs.knowledge_levels["science"],
                  hs.knowledge_levels["programming"],
                  hs.knowledge_levels["language"]>>
             \o <<Min((hs.questions_answered * SCALE) \div 10, SCALE),
                  accuracy,
                  IF hs.questions_answered = 0 THEN 0 ELSE t.response,
                  t.progress, engagement, Min(t.elapsed, SCALE)>>

\* env.reset()
Reset ==
    /\ human_student' = HumanStudent
    /\ current_question' = NoQuestion
    /\ episode_step' = 0
    /\ shown' = NoShown
    /\ \E t \in Timings :
          returned' = Returned("reset", FALSE, Len(GetState(HumanStudent, t)))
    /\ UNCHANGED <<demoVars, webVars>>

\* env.step(action) with the counter advanced before the reset check
StepCountsFirst(action) ==
    /\ episode_step < MaxEnvSteps
    /\ episode_step' = episode_step + 1
    /\ IF ~human_student.present
       THEN /\ returned' = Returned("step", TRUE, 0)
            /\ UNCHANGED <<human_student, current_question, shown>>
       ELSE \E o \in ExecuteAction(action, human_student, current_question,
                                   shown), t \in Timings :
               /\ human_student' = o.student
               /\ current_question' = o.question
               /\ shown' = o.shown
               /\ returned' = Returned("step", FALSE,
                                       Len(GetState(o.student, t)))
    /\ UNCHANGED <<demoVars, webVars>>

\* env.step(action)
Step(action) ==
    /\ IF ~human_student.present
       THEN /\ returned' = Returned("step", TRUE, 0)
            /\ UNCHANGED <<episode_step, human_student, current_question,
                           shown>>
       ELSE /\ episode_step < MaxEnvSteps
            /\ episode_step' = episode_step + 1
            /\ \E o \in ExecuteAction(action, human_student, current_question,
                                      shown), t \in Timings :
                  /\ human_student' = o.student
                  /\ current_question' = o.question
                  /\ shown' = o.shown
                  /\ returned' = Returned("step", FALSE,
                                          Len(GetState(o.student, t)))
    /\ UNCHANGED <<demoVars, webVars>>

\* human_student.take_break()
TakeBreak ==
    /\ human_student.present
    /\ human_student' = TakeBreakOf(human_student)
    /\ returned' = Returned("take_break", FALSE, 0)
    /\ UNCHANGED <<episode_step, current_question, shown, demoVars, webVars>>

InitEnvironment ==
    InitCall("environment", NoProfile, "None", "None", 0, Resp("", 0))

NextEnv ==
    \/ Reset
    \/ \E action \in ActionTypes : Step(action)
    \/ TakeBreak

SpecEnv == InitEnvironment /\ [][NextEnv]_vars
----------------------------------------------------------------------------
(* Properties of the human tutoring environment *)

\* C22: after reset() the episode step counter is 0; every step() on a reset
\* environment raises it by exactly 1 and returns a state vector of 15
\* entries; step() before any reset() raises an error and leaves the counter
\* as it was.
C22_StepCounter ==
    [][ /\ (returned'.call = "reset" =>
               /\ episode_step' = 0
               /\ returned'.state_len = 15)
        /\ (returned'.call = "step" /\ human_student.present =>
               /\ ~returned'.raised
               /\ episode_step' = episode_step + 1
               /\ returned'.state_len = 15)
        /\ (returned'.call = "step" /\ ~human_student.present =>
               /\ returned'.raised
               /\ episode_step' = episode_step) ]_vars

\* a second step of an episode has returned its state vector
C22_Witness ==
    /\ returned.call = "step"
    /\ ~returned.raised
    /\ returned.state_len = 15
    /\ episode_step = 2

C25_DisplayedIsChecked ==
    shown.checked # <<>> =>
        /\ shown.checked = current_question.content
        /\ shown.displayed = shown.checked

============================================================================
